---- MODULE Spec2Model ----
(***************************************************************************)
(* devchat: the Prompt entity (devchat/prompt.py) and the Assistant that   *)
(* builds a prompt and collects the backend's responses                    *)
(* (devchat/assistant.py).                                                 *)
(*                                                                         *)
(* Two specifications:                                                     *)
(*   Spec        one Assistant driven by a caller: make_prompt, then       *)
(*               iterate_responses consumed one next() at a time;          *)
(*   PromptSpec  one Prompt driven directly through set_request,           *)
(*               set_response, append_response, the token hook and         *)
(*               finalize_hash.                                            *)
(*                                                                         *)
(* Text is a sequence of fragments ("Hello" is <<"Hel", "lo">>), so that   *)
(* concatenation is \o and the token cost of a text is its length.         *)
(* Python's None is the empty tuple, a present value x is <<x>>.           *)
(***************************************************************************)
EXTENDS Integers, Sequences, FiniteSets, TLC

VARIABLES
    prompt,         \* Assistant._prompt: None or <<the Prompt>>
    stream,         \* Chat.config.stream
    pc,             \* where the generator of iterate_responses stands
    idx,            \* the index of the display loop the generator is suspended in
    calls,          \* collaborator calls made by the operation in progress (or the last one)
    yielded,        \* the items the generator has yielded so far
    chunks,         \* the chunks stream_response has delivered to the generator
    delivered,      \* chunks delivered to the active prompt over all its iterations
    iters,          \* generators created on the active prompt
    makeResult,     \* how the last make_prompt ended
    err,            \* what the generator raised
    abandonedAt,    \* where the generator stood when the caller dropped it
    streak,         \* PromptSpec: finalize_hash calls made in a row, up to now
    ret,            \* PromptSpec: what the last operation on the prompt returned
    twin,           \* EquivSpec, PairSpec: a second Prompt, None elsewhere
    fresh,          \* PairSpec: whether the last finalize_hash of each prompt computed the digest
    args,           \* MakeSpec: the arguments make_prompt is called with
    finalizeCalls,  \* calls of finalize_hash on the active prompt
    digests         \* times finalize_hash computed the digest (prompt.py 193-198) on it

vars == <<prompt, stream, pc, idx, calls, yielded, chunks, delivered, iters, makeResult,
          err, abandonedAt, streak, ret, twin, fresh, args, finalizeCalls, digests>>

(***************************************************************************)
(* Bounds                                                                  *)
(***************************************************************************)
MaxChunks == 3      \* chunks delivered to one prompt
MaxIters == 2       \* iterate_responses calls on one prompt
MaxFinalize == 3    \* finalize_hash calls on one prompt (PromptSpec)
MaxAppends == 2     \* append_response calls on one prompt (PromptSpec)
MaxHashes == 2      \* hashes in one parent or reference list (MakeSpec)
MaxContents == 2    \* texts in one instruct or context list (MakeSpec)

None == <<>>
Some(x) == <<x>>

RECURSIVE SumCost(_)
SumCost(texts) ==
    IF texts = <<>> THEN 0 ELSE Len(Head(texts)) + SumCost(Tail(texts))

RECURSIVE Join(_)
Join(texts) ==
    IF texts = <<>> THEN <<>> ELSE Head(texts) \o Join(Tail(texts))

(***************************************************************************)
(* Prompt (prompt.py)                                                      *)
(***************************************************************************)
\* The dataclass fields with their defaults, and the attribute `parents`
\* that make_prompt sets on the instance.
EmptyPrompt ==
    [model |-> "gpt", user_name |-> "u", user_email |-> "u@e",
     instruct |-> <<>>, request |-> None, context |-> <<>>, responses |-> <<>>,
     history |-> <<>>,
     parent |-> None, references |-> <<>>, parents |-> <<>>,
     timestamp |-> 0, request_tokens |-> 0, response_tokens |-> 0,
     hash |-> None]

NoMessage == [present |-> FALSE, content |-> <<>>, finish_reason |-> "None"]

check_complete(p) ==
    IF p.request = None \/ p.responses = <<>> THEN FALSE
    ELSE IF p.request_tokens = 0 \/ p.response_tokens = 0 THEN FALSE
    ELSE TRUE

RECURSIVE ResponseCost(_)
ResponseCost(rs) ==
    IF rs = <<>> THEN 0 ELSE Len(Head(rs).content) + ResponseCost(Tail(rs))

\* The backend-specific hook: counts the tokens of the responses.
count_response_tokens(p) ==
    [p EXCEPT !.response_tokens = ResponseCost(p.responses)]

\* The digest with the references serialized as an unordered collection
Digest_unordered(p) ==
    [context |-> p.context, history |-> p.history, instruct |-> p.instruct,
     model |-> p.model, parent |-> p.parent,
     references |-> { p.references[i] : i \in 1..Len(p.references) },
     request |-> p.request, request_tokens |-> p.request_tokens,
     response_tokens |-> p.response_tokens, responses |-> p.responses,
     timestamp |-> p.timestamp, user_email |-> p.user_email,
     user_name |-> p.user_name]

\* asdict(self) without '_hash', sorted by field name; sha256 is taken as
\* injective, so the digest is the serialized data itself.
Digest(p) ==
    [context |-> p.context, history |-> p.history, instruct |-> p.instruct,
     model |-> p.model, parent |-> p.parent, references |-> p.references,
     request |-> p.request, request_tokens |-> p.request_tokens,
     response_tokens |-> p.response_tokens, responses |-> p.responses,
     timestamp |-> p.timestamp, user_email |-> p.user_email,
     user_name |-> p.user_name]

\* finalize_hash without the return of the cached hash (lines 190-191)
finalize_hash_recompute(p) ==
    LET p1 == IF ~check_complete(p) THEN [p EXCEPT !.hash = None] ELSE p
        p2 == count_response_tokens(p1)
        p3 == [p2 EXCEPT !.hash = Some(Digest(p2))]
    IN  [prompt |-> p3, ret |-> p3.hash, hooked |-> TRUE]

\* finalize_hash returning None at line 188, as its docstring says
finalize_hash_documented(p) ==
    IF ~check_complete(p)
    THEN [prompt |-> [p EXCEPT !.hash = None], ret |-> None, hooked |-> FALSE]
    ELSE IF p.hash # None
         THEN [prompt |-> p, ret |-> p.hash, hooked |-> FALSE]
         ELSE LET p2 == count_response_tokens(p)
                  p3 == [p2 EXCEPT !.hash = Some(Digest(p2))]
              IN  [prompt |-> p3, ret |-> p3.hash, hooked |-> TRUE]

finalize_hash(p) ==
    LET p1 == IF ~check_complete(p) THEN [p EXCEPT !.hash = None] ELSE p
    IN  IF p1.hash # None
        THEN [prompt |-> p1, ret |-> p1.hash, hooked |-> FALSE]
        ELSE LET p2 == count_response_tokens(p1)
                 p3 == [p2 EXCEPT !.hash = Some(Digest(p2))]
             IN  [prompt |-> p3, ret |-> p3.hash, hooked |-> TRUE]

\* The position a Python list subscript rs[index] reads (a negative index
\* counts from the end), 0 where it raises IndexError.
PyIndex(rs, index) ==
    IF index >= 0
    THEN (IF index < Len(rs) THEN index + 1 ELSE 0)
    ELSE (IF 0 - index <= Len(rs) THEN Len(rs) + index + 1 ELSE 0)

\* value: the formatted text, or None; raised: line 222 raises IndexError
formatted_response(p, index) ==
    IF index >= Len(p.responses) THEN [raised |-> FALSE, value |-> None]
    ELSE IF PyIndex(p.responses, index) = 0 THEN [raised |-> TRUE, value |-> None]
    ELSE LET m == p.responses[PyIndex(p.responses, index)]
         IN  IF ~m.present THEN [raised |-> FALSE, value |-> None]
             ELSE [raised |-> FALSE,
                   value |-> Some([index |-> index, content |-> m.content,
                                   finish_reason |-> m.finish_reason,
                                   hash |-> p.hash])]

\* The concrete prompt's message operations.
RequestCost(p) ==
    SumCost(p.instruct) + SumCost(p.context)
        + (IF p.request = None THEN 0 ELSE Len(p.request[1]))

set_request(p, content) ==
    LET q == [p EXCEPT !.request = Some(content)]
    IN  [q EXCEPT !.request_tokens = RequestCost(q)]

append_message(p, kind, content) ==
    LET q == IF kind = "instruct"
             THEN [p EXCEPT !.instruct = Append(@, content)]
             ELSE [p EXCEPT !.context = Append(@, content)]
    IN  [q EXCEPT !.request_tokens = RequestCost(q)]

\* A completion payload: its choices, or malformed.
Choice(content, reason) ==
    [present |-> TRUE, content |-> content, finish_reason |-> reason]

Payloads ==
    { [ok |-> TRUE, choices |-> << Choice(<<"Hel", "lo">>, "stop") >>],
      [ok |-> TRUE, choices |-> << Choice(<<"Hel", "lo">>, "stop"), Choice(<<"x">>, "stop") >>],
      [ok |-> TRUE, choices |-> << Choice(<<>>, "stop") >>],
      [ok |-> TRUE, choices |-> <<>>],
      [ok |-> FALSE, choices |-> <<>>] }

set_response(p, payload) ==
    [p EXCEPT !.responses = payload.choices,
              !.response_tokens = ResponseCost(payload.choices)]

\* A streamed delta: the choice it belongs to, the text it adds, whether it
\* ends that response; or malformed.
Delta(index, content, finish) ==
    [ok |-> TRUE, index |-> index, content |-> content, finish |-> finish]

Chunks ==
    { Delta(0, <<"Hel">>, FALSE), Delta(0, <<"lo">>, FALSE), Delta(0, <<>>, TRUE),
      Delta(1, <<"x">>, FALSE),
      [ok |-> FALSE, index |-> 0, content |-> <<>>, finish |-> FALSE] }

Padded(rs, n) ==
    [i \in 1..n |-> IF i <= Len(rs) THEN rs[i] ELSE NoMessage]

append_response(p, delta) ==
    LET k == delta.index + 1
        rs == Padded(p.responses, IF k > Len(p.responses) THEN k ELSE Len(p.responses))
        old == rs[k]
        new == [present |-> TRUE,
                content |-> old.content \o delta.content,
                finish_reason |-> IF delta.finish THEN "stop" ELSE old.finish_reason]
    IN  [prompt |-> [p EXCEPT !.responses = [rs EXCEPT ![k] = new]],
         ret |-> IF delta.index = 0 /\ delta.content # <<>>
                 THEN Some(delta.content) ELSE None]

(***************************************************************************)
(* Collaborators: Chat and Store                                           *)
(***************************************************************************)
ChatCall(op) == [on |-> "chat", op |-> op, arg |-> "prompt"]
StoreCall(op, arg) == [on |-> "store", op |-> op, arg |-> arg]
PromptCall(op, arg) == [on |-> "prompt", op |-> op, arg |-> arg]

\* The hashes the Store holds, and the ones a caller may name.
KnownHashes == {"a1", "b2"}
HashInputs == {"a1", "b2", "zz"}

\* Store.get_prompt(hash) succeeds
Resolvable(h) == h \in KnownHashes

\* utils.parse_hashes: no list is the empty list
parse_hashes(hashes) == hashes

\* Chat.init_prompt(request): a new empty prompt
init_prompt(request) == EmptyPrompt

\* Store.store_prompt(prompt): finalizes the hash and persists the prompt;
\* fails when the prompt has no hash.
store_prompt(p) ==
    LET r == finalize_hash(p)
    IN  [prompt |-> r.prompt, ok |-> r.ret # None, hooked |-> r.hooked,
         log |-> << StoreCall("store_prompt", "prompt") >>]

(***************************************************************************)
(* Assistant.make_prompt (assistant.py 20-51)                              *)
(***************************************************************************)
\* The position of the first hash get_prompt cannot resolve, 0 if none.
FirstBad(hs) ==
    IF \E i \in 1..Len(hs) : ~Resolvable(hs[i])
    THEN CHOOSE i \in 1..Len(hs) :
            /\ ~Resolvable(hs[i])
            /\ \A j \in 1..(i - 1) : Resolvable(hs[j])
    ELSE 0

RECURSIVE AppendContexts(_, _)
AppendContexts(p, contents) ==
    IF contents = <<>> THEN p
    ELSE AppendContexts(append_message(p, "context", Head(contents)), Tail(contents))

\* make_prompt sending the prompt to the backend before the hashes are resolved
make_prompt_eager(request, instruct_contents, context_contents, parent, reference) ==
    LET p0 == init_prompt(request)
        p1 == [p0 EXCEPT !.parents = parse_hashes(parent),
                         !.references = parse_hashes(reference)]
        lookups == p1.parents \o p1.references
        bad == FirstBad(lookups)
        looked == IF bad = 0 THEN lookups ELSE SubSeq(lookups, 1, bad)
        log == << ChatCall("init_prompt"), ChatCall("complete_response") >>
                  \o [i \in 1..Len(looked) |-> StoreCall("get_prompt", looked[i])]
        p2 == set_request(p1, request)
    IN  IF bad # 0
        THEN [prompt |-> p1, log |-> log, result |-> "unresolved"]
        ELSE [prompt |-> p2, log |-> log, result |-> "ok"]

\* make_prompt appending every instruction as a message of its own
make_prompt_per_instruct(request, instruct_contents, context_contents, parent, reference) ==
    LET p0 == init_prompt(request)
        p1 == [p0 EXCEPT !.parents = parse_hashes(parent),
                         !.references = parse_hashes(reference)]
        lookups == p1.parents \o p1.references
        bad == FirstBad(lookups)
        looked == IF bad = 0 THEN lookups ELSE SubSeq(lookups, 1, bad)
        log == << ChatCall("init_prompt") >>
                  \o [i \in 1..Len(looked) |-> StoreCall("get_prompt", looked[i])]
        p2 == [p1 EXCEPT !.instruct = @ \o instruct_contents]
        p3 == set_request(p2, request)
        p4 == IF context_contents # <<>> THEN AppendContexts(p3, context_contents) ELSE p3
        ops == [i \in 1..Len(instruct_contents) |-> PromptCall("append_message", "instruct")]
                 \o << PromptCall("set_request", "request") >>
                 \o [i \in 1..Len(context_contents) |->
                        PromptCall("append_message", "context")]
    IN  IF bad # 0
        THEN [prompt |-> p1, log |-> log, result |-> "unresolved"]
        ELSE [prompt |-> p4, log |-> log \o ops, result |-> "ok"]

\* make_prompt resolving the references before the parents
make_prompt_refs_first(request, instruct_contents, context_contents, parent, reference) ==
    LET p0 == init_prompt(request)
        p1 == [p0 EXCEPT !.parents = parse_hashes(parent),
                         !.references = parse_hashes(reference)]
        lookups == p1.references \o p1.parents
        bad == FirstBad(lookups)
        looked == IF bad = 0 THEN lookups ELSE SubSeq(lookups, 1, bad)
        log == << ChatCall("init_prompt") >>
                  \o [i \in 1..Len(looked) |-> StoreCall("get_prompt", looked[i])]
        p2 == IF instruct_contents # <<>>
              THEN append_message(p1, "instruct", Join(instruct_contents))
              ELSE p1
        p3 == set_request(p2, request)
        p4 == IF context_contents # <<>> THEN AppendContexts(p3, context_contents) ELSE p3
        ops == (IF instruct_contents # <<>>
                THEN << PromptCall("append_message", "instruct") >> ELSE <<>>)
                 \o << PromptCall("set_request", "request") >>
                 \o [i \in 1..Len(context_contents) |->
                        PromptCall("append_message", "context")]
    IN  IF bad # 0
        THEN [prompt |-> p1, log |-> log, result |-> "unresolved"]
        ELSE [prompt |-> p4, log |-> log \o ops, result |-> "ok"]

make_prompt(request, instruct_contents, context_contents, parent, reference) ==
    LET p0 == init_prompt(request)
        p1 == [p0 EXCEPT !.parents = parse_hashes(parent),
                         !.references = parse_hashes(reference)]
        lookups == p1.parents \o p1.references
        bad == FirstBad(lookups)
        looked == IF bad = 0 THEN lookups ELSE SubSeq(lookups, 1, bad)
        log == << ChatCall("init_prompt") >>
                  \o [i \in 1..Len(looked) |-> StoreCall("get_prompt", looked[i])]
        p2 == IF instruct_contents # <<>>
              THEN append_message(p1, "instruct", Join(instruct_contents))
              ELSE p1
        p3 == set_request(p2, request)
        p4 == IF context_contents # <<>> THEN AppendContexts(p3, context_contents) ELSE p3
        ops == (IF instruct_contents # <<>>
                THEN << PromptCall("append_message", "instruct") >> ELSE <<>>)
                 \o << PromptCall("set_request", "request") >>
                 \o [i \in 1..Len(context_contents) |->
                        PromptCall("append_message", "context")]
    IN  IF bad # 0
        THEN [prompt |-> p1, log |-> log, result |-> "unresolved"]
        ELSE [prompt |-> p4, log |-> log \o ops, result |-> "ok"]

(***************************************************************************)
(* Assistant.iterate_responses (assistant.py 53-72), one next() at a time  *)
(***************************************************************************)
Item(kind, text, index, hash) ==
    [kind |-> kind, text |-> text, index |-> index, hash |-> hash]

\* line 62 persisting the prompt after every chunk
on_chunk_store(p, chunk) ==
    IF ~chunk.ok
    THEN [prompt |-> p, ok |-> FALSE, items |-> <<>>, log |-> <<>>]
    ELSE LET r == append_response(p, chunk)
             s == store_prompt(r.prompt)
         IN  [prompt |-> s.prompt, ok |-> TRUE, log |-> s.log,
              items |-> << IF r.ret = None THEN Item("None", <<>>, 0, None)
                           ELSE Item("fragment", r.ret[1], 0, None) >>]

\* line 62: one chunk of the stream
on_chunk(p, chunk) ==
    IF ~chunk.ok
    THEN [prompt |-> p, ok |-> FALSE, items |-> <<>>, log |-> <<>>]
    ELSE LET r == append_response(p, chunk)
         IN  [prompt |-> r.prompt, ok |-> TRUE, log |-> <<>>,
              items |-> << IF r.ret = None THEN Item("None", <<>>, 0, None)
                           ELSE Item("fragment", r.ret[1], 0, None) >>]

\* lines 63-64 without the call of store_prompt
after_stream_nostore(p) ==
    [prompt |-> p, ok |-> TRUE, hooked |-> FALSE, log |-> <<>>,
     items |-> << Item("trailer", <<>>, 0, p.hash) >>]

\* lines 63-64 falling through to the blocking branch's backend call
after_stream_both(p) ==
    LET s == store_prompt(p)
    IN  [prompt |-> s.prompt, ok |-> s.ok, hooked |-> s.hooked,
         log |-> s.log \o << ChatCall("complete_response") >>,
         items |-> << Item("trailer", <<>>, 0, s.prompt.hash) >>]

\* lines 63-64: the stream has ended
after_stream(p) ==
    LET s == store_prompt(p)
    IN  [prompt |-> s.prompt, ok |-> s.ok, hooked |-> s.hooked, log |-> s.log,
         items |-> << Item("trailer", <<>>, 0, s.prompt.hash) >>]

\* lines 65-66 with the loop starting at index 0
next_block_all(p, index) ==
    IF index - 1 >= Len(p.responses)
    THEN [end |-> TRUE, ok |-> TRUE, items |-> <<>>]
    ELSE LET f == formatted_response(p, index - 1).value
         IN  IF f = None
             THEN [end |-> FALSE, ok |-> FALSE, items |-> <<>>]
             ELSE [end |-> FALSE, ok |-> TRUE,
                   items |-> << Item("block", f[1].content, index - 1, f[1].hash) >>]

\* lines 65-66: the display loop of streaming mode, at index
next_block(p, index) ==
    IF index >= Len(p.responses)
    THEN [end |-> TRUE, ok |-> TRUE, items |-> <<>>]
    ELSE LET f == formatted_response(p, index).value
         IN  IF f = None
             THEN [end |-> FALSE, ok |-> FALSE, items |-> <<>>]
             ELSE [end |-> FALSE, ok |-> TRUE,
                   items |-> << Item("block", f[1].content, index, f[1].hash) >>]

\* lines 69-70 in the other order: the prompt is stored before the payload is parsed
blocking_store_first(p, payload) ==
    LET s == store_prompt(p)
    IN  IF ~payload.ok
        THEN [prompt |-> s.prompt, err |-> "parse", hooked |-> s.hooked, log |-> s.log]
        ELSE [prompt |-> set_response(s.prompt, payload),
              err |-> IF s.ok THEN "attr" ELSE "store", hooked |-> s.hooked, log |-> s.log]

\* lines 69-71: the completion has arrived. `responses` is a list, which has
\* no keys(): line 71 raises AttributeError once the prompt is stored.
blocking(p, payload) ==
    IF ~payload.ok
    THEN [prompt |-> p, err |-> "parse", hooked |-> FALSE, log |-> <<>>]
    ELSE LET s == store_prompt(set_response(p, payload))
         IN  [prompt |-> s.prompt, err |-> IF s.ok THEN "attr" ELSE "store",
              hooked |-> s.hooked, log |-> s.log]

(***************************************************************************)
(* Inputs                                                                  *)
(***************************************************************************)
\* The calls of make_prompt the caller makes: a plain round with instructions
\* and context, a parent the Store does not hold, a reference it does not
\* hold after a parent it holds, and an empty request with both resolvable.
MakeInputs ==
    { [request |-> <<"fix", "bug">>,
       instruct_contents |-> << <<"be ">>, <<"concise">> >>,
       context_contents |-> << <<"f1">>, <<"f2">> >>,
       parent |-> <<>>, reference |-> <<>>],
      [request |-> <<"fix", "bug">>, instruct_contents |-> <<>>,
       context_contents |-> <<>>, parent |-> <<"zz">>, reference |-> <<>>],
      [request |-> <<"fix", "bug">>, instruct_contents |-> <<>>,
       context_contents |-> <<>>, parent |-> <<"a1">>, reference |-> <<"zz">>],
      [request |-> <<>>, instruct_contents |-> <<>>,
       context_contents |-> <<>>, parent |-> <<"a1">>, reference |-> <<"a1">>] }

Requests == { <<"fix", "bug">>, <<>> }

StoreCalls(log) ==
    Cardinality({ i \in 1..Len(log) : log[i].op = "store_prompt" })

BackendCalls(log) ==
    Cardinality({ i \in 1..Len(log) :
                    log[i].op \in {"stream_response", "complete_response"} })

ChatCalls(log) ==
    Cardinality({ i \in 1..Len(log) : log[i].on = "chat" })

(***************************************************************************)
(* Spec: the Assistant and its caller                                      *)
(***************************************************************************)
Init ==
    /\ prompt = None
    /\ stream \in BOOLEAN
    /\ pc = "idle"
    /\ idx = 0
    /\ calls = <<>>
    /\ yielded = <<>>
    /\ chunks = <<>>
    /\ delivered = 0
    /\ iters = 0
    /\ makeResult = "none"
    /\ err = "none"
    /\ abandonedAt = "none"
    /\ streak = 0
    /\ ret = None
    /\ twin = None
    /\ fresh = <<FALSE, FALSE>>
    /\ args = None
    /\ finalizeCalls = 0
    /\ digests = 0

NoGenerator == pc \in {"idle", "done", "raised", "abandoned"}

driver == <<streak, ret, twin, fresh, args>>

\* make_prompt(request, instruct_contents, context_contents, parent, reference)
MakePrompt ==
    /\ NoGenerator
    /\ \E in \in MakeInputs :
            LET r == make_prompt(in.request, in.instruct_contents, in.context_contents,
                                 in.parent, in.reference)
            IN  /\ prompt' = Some(r.prompt)
                /\ calls' = r.log
                /\ makeResult' = r.result
    /\ pc' = "idle"
    /\ idx' = 0
    /\ yielded' = <<>>
    /\ chunks' = <<>>
    /\ delivered' = 0
    /\ iters' = 0
    /\ err' = "none"
    /\ abandonedAt' = "none"
    /\ finalizeCalls' = 0
    /\ digests' = 0
    /\ UNCHANGED <<stream, driver>>

\* make_prompt where Chat.init_prompt fails: line 33 assigns nothing
MakePromptInitFails ==
    /\ NoGenerator
    /\ calls' = << ChatCall("init_prompt") >>
    /\ makeResult' = "init_failed"
    /\ pc' = "idle"
    /\ idx' = 0
    /\ yielded' = <<>>
    /\ chunks' = <<>>
    /\ err' = "none"
    /\ abandonedAt' = "none"
    /\ UNCHANGED <<prompt, stream, delivered, iters, finalizeCalls, digests, driver>>

\* iterate_responses(): the generator is created, no line of it has run
IterateResponses ==
    /\ NoGenerator
    /\ iters < MaxIters
    /\ iters' = iters + 1
    /\ pc' = "created"
    /\ idx' = 0
    /\ calls' = <<>>
    /\ yielded' = <<>>
    /\ chunks' = <<>>
    /\ err' = "none"
    /\ abandonedAt' = "none"
    /\ UNCHANGED <<prompt, stream, delivered, makeResult, finalizeCalls, digests, driver>>

\* The generator stands in the streaming branch: at its start, or at line 62.
InStream == (pc = "created" /\ stream) \/ pc = "chunk"

\* line 60, run by the first next()
StreamLog == IF pc = "created" THEN << ChatCall("stream_response") >> ELSE <<>>

Raise(e) ==
    /\ pc' = "raised"
    /\ err' = e

\* next(): the backend delivers a chunk (lines 61-62)
StreamChunk ==
    /\ InStream
    /\ delivered < MaxChunks
    /\ \E c \in Chunks :
        /\ chunks' = Append(chunks, c)
        /\ IF prompt = None
           THEN /\ Raise("attr")
                /\ calls' = calls \o StreamLog
                /\ UNCHANGED <<prompt, yielded>>
           ELSE LET r == on_chunk(prompt[1], c)
                IN  /\ prompt' = Some(r.prompt)
                    /\ calls' = calls \o StreamLog \o r.log
                    /\ IF r.ok
                       THEN /\ pc' = "chunk"
                            /\ yielded' = yielded \o r.items
                            /\ UNCHANGED err
                       ELSE /\ Raise("parse")
                            /\ UNCHANGED yielded
    /\ delivered' = delivered + 1
    /\ UNCHANGED <<stream, idx, iters, makeResult, abandonedAt, finalizeCalls, digests, driver>>

\* next(): stream_response raises (line 60 or 61)
StreamRaise ==
    /\ InStream
    /\ calls' = calls \o StreamLog
    /\ Raise("backend")
    /\ UNCHANGED <<prompt, stream, idx, yielded, chunks, delivered, iters, makeResult,
                   abandonedAt, finalizeCalls, digests, driver>>

\* next(): the stream has ended (lines 63-64)
StreamEnd ==
    /\ InStream
    /\ IF prompt = None
       THEN /\ Raise("attr")
            /\ calls' = calls \o StreamLog \o << StoreCall("store_prompt", "prompt") >>
            /\ UNCHANGED <<prompt, yielded, idx, finalizeCalls, digests>>
       ELSE LET r == after_stream(prompt[1])
            IN  /\ prompt' = Some(r.prompt)
                /\ calls' = calls \o StreamLog \o r.log
                /\ finalizeCalls' = finalizeCalls + StoreCalls(r.log)
                /\ digests' = digests + (IF r.hooked THEN 1 ELSE 0)
                /\ IF r.ok
                   THEN /\ pc' = "trailer"
                        /\ yielded' = yielded \o r.items
                        /\ idx' = 1
                        /\ UNCHANGED err
                   ELSE /\ Raise("store")
                        /\ UNCHANGED <<yielded, idx>>
    /\ UNCHANGED <<stream, chunks, delivered, iters, makeResult, abandonedAt, driver>>

\* next(): the display loop of streaming mode (lines 65-66)
NextBlock ==
    /\ pc \in {"trailer", "block"}
    /\ LET r == next_block(prompt[1], idx)
       IN  IF r.end
           THEN /\ pc' = "done"
                /\ UNCHANGED <<yielded, idx, err>>
           ELSE IF r.ok
                THEN /\ pc' = "block"
                     /\ yielded' = yielded \o r.items
                     /\ idx' = idx + 1
                     /\ UNCHANGED err
                ELSE /\ Raise("type")
                     /\ UNCHANGED <<yielded, idx>>
    /\ UNCHANGED <<prompt, stream, calls, chunks, delivered, iters, makeResult,
                   abandonedAt, finalizeCalls, digests, driver>>

\* next(): blocking mode, complete_response returns (lines 68-72)
BlockingNext ==
    /\ pc = "created"
    /\ ~stream
    /\ \E payload \in Payloads :
        IF prompt = None
        THEN /\ Raise("attr")
             /\ calls' = calls \o << ChatCall("complete_response") >>
             /\ UNCHANGED <<prompt, finalizeCalls, digests>>
        ELSE LET r == blocking(prompt[1], payload)
             IN  /\ prompt' = Some(r.prompt)
                 /\ calls' = calls \o << ChatCall("complete_response") >> \o r.log
                 /\ finalizeCalls' = finalizeCalls + StoreCalls(r.log)
                 /\ digests' = digests + (IF r.hooked THEN 1 ELSE 0)
                 /\ Raise(r.err)
    /\ UNCHANGED <<stream, idx, yielded, chunks, delivered, iters, makeResult,
                   abandonedAt, driver>>

\* next(): blocking mode, complete_response raises (line 68)
BlockingRaise ==
    /\ pc = "created"
    /\ ~stream
    /\ calls' = calls \o << ChatCall("complete_response") >>
    /\ Raise("backend")
    /\ UNCHANGED <<prompt, stream, idx, yielded, chunks, delivered, iters, makeResult,
                   abandonedAt, finalizeCalls, digests, driver>>

\* The caller drops the generator before it is exhausted.
Abandon ==
    /\ pc \in {"created", "chunk", "trailer", "block"}
    /\ abandonedAt' = pc
    /\ pc' = "abandoned"
    /\ UNCHANGED <<prompt, stream, idx, calls, yielded, chunks, delivered, iters,
                   makeResult, err, finalizeCalls, digests, driver>>

Next ==
    \/ MakePrompt
    \/ MakePromptInitFails
    \/ IterateResponses
    \/ StreamChunk
    \/ StreamRaise
    \/ StreamEnd
    \/ NextBlock
    \/ BlockingNext
    \/ BlockingRaise
    \/ Abandon

Spec == Init /\ [][Next]_vars

(***************************************************************************)
(* PromptSpec: one Prompt and the operations called on it directly         *)
(***************************************************************************)
InitP ==
    /\ prompt = Some(EmptyPrompt)
    /\ stream = FALSE
    /\ pc = "idle"
    /\ idx = 0
    /\ calls = <<>>
    /\ yielded = <<>>
    /\ chunks = <<>>
    /\ delivered = 0
    /\ iters = 0
    /\ makeResult = "none"
    /\ err = "none"
    /\ abandonedAt = "none"
    /\ streak = 0
    /\ ret = None
    /\ twin = None
    /\ fresh = <<FALSE, FALSE>>
    /\ args = None
    /\ finalizeCalls = 0
    /\ digests = 0

assistant == <<stream, pc, idx, calls, yielded, chunks, iters, makeResult, err, abandonedAt,
               twin, fresh, args>>

\* The deltas and payloads the operations are called with.
PDeltas == { Delta(0, <<"Hel">>, FALSE), Delta(0, <<>>, TRUE), Delta(1, <<"x">>, FALSE) }

PPayloads ==
    { [ok |-> TRUE, choices |-> << Choice(<<"Hel", "lo">>, "stop") >>],
      [ok |-> TRUE, choices |-> <<>>] }

PSetRequest ==
    /\ \E content \in Requests : prompt' = Some(set_request(prompt[1], content))
    /\ streak' = 0
    /\ ret' = None
    /\ UNCHANGED <<assistant, delivered, finalizeCalls, digests>>

PSetResponse ==
    /\ \E payload \in PPayloads : prompt' = Some(set_response(prompt[1], payload))
    /\ streak' = 0
    /\ ret' = None
    /\ UNCHANGED <<assistant, delivered, finalizeCalls, digests>>

PAppendResponse ==
    /\ delivered < MaxAppends
    /\ \E delta \in PDeltas :
            LET r == append_response(prompt[1], delta)
            IN  /\ prompt' = Some(r.prompt)
                /\ ret' = r.ret
    /\ delivered' = delivered + 1
    /\ streak' = 0
    /\ UNCHANGED <<assistant, finalizeCalls, digests>>

PCountTokens ==
    /\ prompt' = Some(count_response_tokens(prompt[1]))
    /\ streak' = 0
    /\ ret' = None
    /\ UNCHANGED <<assistant, delivered, finalizeCalls, digests>>

PFinalizeHash ==
    /\ finalizeCalls < MaxFinalize
    /\ LET r == finalize_hash(prompt[1])
       IN  /\ prompt' = Some(r.prompt)
           /\ ret' = r.ret
           /\ digests' = digests + (IF r.hooked THEN 1 ELSE 0)
    /\ finalizeCalls' = finalizeCalls + 1
    /\ streak' = streak + 1
    /\ UNCHANGED <<assistant, delivered>>

NextP ==
    \/ PSetRequest
    \/ PSetResponse
    \/ PAppendResponse
    \/ PCountTokens
    \/ PFinalizeHash

PromptSpec == InitP /\ [][NextP]_vars

\* The indexes formatted_response is asked for
Indexes == (0 - MaxAppends)..MaxAppends

(***************************************************************************)
(* EquivSpec: two prompts built by the same make_prompt; the first is      *)
(* streamed a chunk sequence, the second gets the one completion that is   *)
(* the concatenation of those chunks.                                      *)
(***************************************************************************)
T == twin[1]

EChunks == { c \in Chunks : c.ok } \cup { Delta(1, <<>>, TRUE) }

Built ==
    { make_prompt(in.request, in.instruct_contents, in.context_contents,
                  in.parent, in.reference) : in \in MakeInputs }

\* The chunks of cs that belong to choice index
OfIndex(cs, index) == SelectSeq(cs, LAMBDA c : c.index = index)

RECURSIVE JoinContents(_)
JoinContents(cs) ==
    IF cs = <<>> THEN <<>> ELSE Head(cs).content \o JoinContents(Tail(cs))

Choices(cs) ==
    IF cs = <<>> THEN 0
    ELSE 1 + CHOOSE m \in 0..1 :
                /\ \E i \in 1..Len(cs) : cs[i].index = m
                /\ \A i \in 1..Len(cs) : cs[i].index <= m

\* Every choice of the completion has a chunk in the stream.
WholeStream(cs) ==
    \A m \in 0..(Choices(cs) - 1) : OfIndex(cs, m) # <<>>

\* The completion the backend returns for what it streamed as cs.
Completion(cs) ==
    [ok |-> TRUE,
     choices |-> [k \in 1..Choices(cs) |->
        LET mine == OfIndex(cs, k - 1)
        IN  Choice(JoinContents(mine),
                   IF \E i \in 1..Len(mine) : mine[i].finish THEN "stop" ELSE "None")]]

InitE ==
    /\ \E b \in { x \in Built : x.result = "ok" } :
            /\ prompt = Some(b.prompt)
            /\ twin = Some(b.prompt)
    /\ stream = TRUE
    /\ pc = "created"
    /\ idx = 0
    /\ calls = <<>>
    /\ yielded = <<>>
    /\ chunks = <<>>
    /\ delivered = 0
    /\ iters = 1
    /\ makeResult = "ok"
    /\ err = "none"
    /\ abandonedAt = "none"
    /\ streak = 0
    /\ ret = None
    /\ fresh = <<FALSE, FALSE>>
    /\ args = None
    /\ finalizeCalls = 0
    /\ digests = 0

\* streaming, lines 61-62: one chunk for the first prompt
EChunk ==
    /\ InStream
    /\ delivered < MaxChunks
    /\ \E c \in EChunks :
        LET r == on_chunk(prompt[1], c)
        IN  /\ chunks' = Append(chunks, c)
            /\ prompt' = Some(r.prompt)
            /\ calls' = calls \o StreamLog \o r.log
            /\ yielded' = yielded \o r.items
    /\ pc' = "chunk"
    /\ delivered' = delivered + 1
    /\ UNCHANGED <<stream, idx, iters, makeResult, err, abandonedAt, streak, ret, twin,
                   fresh, args, finalizeCalls, digests>>

\* streaming, lines 63-64, for the first prompt; blocking, lines 68-71, for
\* the second, with the completion of the same backend output
EEnd ==
    /\ InStream
    /\ WholeStream(chunks)
    /\ LET r == after_stream(prompt[1])
           b == blocking(T, Completion(chunks))
       IN  /\ prompt' = Some(r.prompt)
           /\ twin' = Some(b.prompt)
           /\ calls' = calls \o StreamLog \o r.log
           /\ yielded' = yielded \o r.items
    /\ pc' = "compared"
    /\ UNCHANGED <<stream, idx, chunks, delivered, iters, makeResult, err, abandonedAt,
                   streak, ret, fresh, args, finalizeCalls, digests>>

NextE ==
    \/ EChunk
    \/ EEnd

EquivSpec == InitE /\ [][NextE]_vars

(***************************************************************************)
(* PairSpec: two prompts, each appended to and finalized, compared after   *)
(* finalize_hash has been called on both.                                  *)
(***************************************************************************)
\* The dataclass fields that asdict returns, without '_hash'
HashedFields ==
    {"model", "user_name", "user_email", "instruct", "request", "context", "responses",
     "history", "parent", "references", "timestamp", "request_tokens", "response_tokens"}

SameFields(p, q) == \A f \in HashedFields : p[f] = q[f]

PairBases ==
    LET base == set_request(EmptyPrompt, <<"fix", "bug">>)
    IN  { [base EXCEPT !.references = r] : r \in { <<>>, <<"a1", "b2">>, <<"b2", "a1">> } }
            \cup { [base EXCEPT !.parent = Some("a1")] }

PairDeltas == { Delta(0, <<"Hel">>, FALSE), Delta(1, <<"x">>, FALSE) }

InitPair ==
    /\ prompt \in { Some(b) : b \in PairBases }
    /\ twin \in { Some(b) : b \in PairBases }
    /\ stream = FALSE
    /\ pc = "populated"
    /\ idx = 0
    /\ calls = <<>>
    /\ yielded = <<>>
    /\ chunks = <<>>
    /\ delivered = 0
    /\ iters = 0
    /\ makeResult = "none"
    /\ err = "none"
    /\ abandonedAt = "none"
    /\ streak = 0
    /\ ret = None
    /\ fresh = <<FALSE, FALSE>>
    /\ args = None
    /\ finalizeCalls = 0
    /\ digests = 0

pairRest == <<stream, idx, calls, yielded, chunks, iters, makeResult, err, abandonedAt,
              streak, ret, args, digests>>

\* append_response on the first prompt
PairAppendFirst ==
    /\ delivered < MaxChunks
    /\ \E delta \in PairDeltas : prompt' = Some(append_response(prompt[1], delta).prompt)
    /\ delivered' = delivered + 1
    /\ pc' = "appended"
    /\ fresh' = <<FALSE, fresh[2]>>
    /\ UNCHANGED <<pairRest, twin, finalizeCalls>>

\* append_response on the second prompt
PairAppendSecond ==
    /\ delivered < MaxChunks
    /\ \E delta \in PairDeltas : twin' = Some(append_response(twin[1], delta).prompt)
    /\ delivered' = delivered + 1
    /\ pc' = "appended"
    /\ fresh' = <<fresh[1], FALSE>>
    /\ UNCHANGED <<pairRest, prompt, finalizeCalls>>

\* finalize_hash on both prompts; fresh records which calls reached line 193
PairFinalize ==
    /\ finalizeCalls < MaxFinalize
    /\ LET r1 == finalize_hash(prompt[1])
           r2 == finalize_hash(twin[1])
       IN  /\ prompt' = Some(r1.prompt)
           /\ twin' = Some(r2.prompt)
           /\ fresh' = <<r1.hooked, r2.hooked>>
    /\ finalizeCalls' = finalizeCalls + 1
    /\ pc' = "compared"
    /\ UNCHANGED <<pairRest, delivered>>

NextPair ==
    \/ PairAppendFirst
    \/ PairAppendSecond
    \/ PairFinalize

PairSpec == InitPair /\ [][NextPair]_vars

(***************************************************************************)
(* MakeSpec: one call of make_prompt on a new Assistant, for every         *)
(* argument list up to the bounds.                                         *)
(***************************************************************************)
SeqsUpTo(S, n) == UNION { [1..k -> S] : k \in 0..n }

InstructTexts == { <<"be ">>, <<"concise">> }
ContextTexts == { <<"f1">>, <<"f2">> }

\* Every content list without hashes, and every pair of hash lists with one
\* instruction and one context.
MakeArgs ==
    { [request |-> rq, instruct_contents |-> ic, context_contents |-> cc,
       parent |-> <<>>, reference |-> <<>>] :
        rq \in Requests, ic \in SeqsUpTo(InstructTexts, MaxContents),
        cc \in SeqsUpTo(ContextTexts, MaxContents) }
    \cup
    { [request |-> <<"fix", "bug">>, instruct_contents |-> << <<"be ">> >>,
       context_contents |-> << <<"f1">> >>, parent |-> ps, reference |-> rs] :
        ps \in SeqsUpTo(HashInputs, MaxHashes), rs \in SeqsUpTo(HashInputs, MaxHashes) }

InitMake ==
    /\ args \in { Some(a) : a \in MakeArgs }
    /\ prompt = None
    /\ stream \in BOOLEAN
    /\ pc = "idle"
    /\ idx = 0
    /\ calls = <<>>
    /\ yielded = <<>>
    /\ chunks = <<>>
    /\ delivered = 0
    /\ iters = 0
    /\ makeResult = "none"
    /\ err = "none"
    /\ abandonedAt = "none"
    /\ streak = 0
    /\ ret = None
    /\ twin = None
    /\ fresh = <<FALSE, FALSE>>
    /\ finalizeCalls = 0
    /\ digests = 0

\* make_prompt(*args), lines 33-51
MakePromptOnce ==
    /\ makeResult = "none"
    /\ LET a == args[1]
           r == make_prompt(a.request, a.instruct_contents, a.context_contents,
                            a.parent, a.reference)
       IN  /\ prompt' = Some(r.prompt)
           /\ calls' = r.log
           /\ makeResult' = r.result
    /\ UNCHANGED <<stream, pc, idx, yielded, chunks, delivered, iters, err, abandonedAt,
                   finalizeCalls, digests, driver>>

\* make_prompt(*args) where Chat.init_prompt fails at line 33
MakePromptOnceInitFails ==
    /\ makeResult = "none"
    /\ MakePromptInitFails

NextMake ==
    \/ MakePromptOnce
    \/ MakePromptOnceInitFails

MakeSpec == InitMake /\ [][NextMake]_vars

(***************************************************************************)
(* Properties                                                              *)
(***************************************************************************)
P == prompt[1]

\* C1: when iterate_responses has been consumed to exhaustion, store_prompt
\* has been called exactly once during that iteration and the prompt's hash
\* is not null.
C1_PersistedOnceAtExhaustion ==
    pc = "done" =>
        /\ StoreCalls(calls) = 1
        /\ prompt # None
        /\ P.hash # None

C1_Witness ==
    /\ pc = "done"
    /\ stream
    /\ makeResult = "ok"
    /\ StoreCalls(calls) = 1
    /\ Len(chunks) >= 2

\* C2 as stated: when make_prompt fails on an unresolvable parent or
\* reference hash, no call of any kind has been made on the Chat.
C2_NoChatCallAtFailure ==
    (pc = "idle" /\ makeResult = "unresolved") => ChatCalls(calls) = 0

\* C2 amended: when make_prompt fails on an unresolvable hash, the only call
\* made on the Chat is the one init_prompt that created the prompt; no
\* backend call (stream_response, complete_response) has been made.
C2_NoBackendCallAtFailure ==
    (pc = "idle" /\ makeResult = "unresolved") =>
        /\ BackendCalls(calls) = 0
        /\ ChatCalls(calls) = 1
        /\ calls[1] = ChatCall("init_prompt")

C2_Witness ==
    /\ pc = "idle"
    /\ makeResult = "unresolved"
    /\ calls[Len(calls)] = StoreCall("get_prompt", "zz")
    /\ Len(calls) = 3

\* C3: after make_prompt has failed on an unresolvable hash, the active
\* prompt is not the partially built one (no request set), so no following
\* iterate_responses sends it to the backend or persists it.
C3_NoPartialPromptUsable ==
    makeResult = "unresolved" =>
        ~ /\ prompt # None
          /\ P.request = None
          /\ BackendCalls(calls) + StoreCalls(calls) > 0

\* C4: finalize_hash called on an incomplete prompt returns null and leaves
\* the hash null.
C4_IncompleteFinalizeReturnsNull ==
    [][(finalizeCalls' = finalizeCalls + 1 /\ ~check_complete(P))
          => (ret' = None /\ prompt'[1].hash = None)]_vars

\* C5: in every reachable state of a Prompt, the hash is non-null iff the
\* request is set, responses is non-empty and both token counts are non-zero.
C5_HashIffComplete ==
    (P.hash # None) <=> check_complete(P)

\* C6: once the hash is non-null it never changes, whatever operation follows.
C6_HashImmutable ==
    [][P.hash # None => prompt'[1].hash = P.hash]_vars

\* C7: a finalize_hash call that directly follows a finalize_hash call on a
\* complete prompt returns the same hash and changes no field: the token
\* hook is not called and the digest is not recomputed.
C7_FinalizeIdempotent ==
    [][(streak >= 1 /\ check_complete(P) /\ finalizeCalls' = finalizeCalls + 1)
          => (prompt' = prompt /\ ret' = ret /\ ret' = P.hash /\ digests' = digests)]_vars

C7_Witness ==
    /\ streak = 2
    /\ finalizeCalls = 2
    /\ digests = 1
    /\ P.request = Some(<<"fix", "bug">>)
    /\ P.responses = << Choice(<<"Hel", "lo">>, "stop") >>
    /\ ret = P.hash
    /\ ret # None

\* C8 as stated: if the caller stops consuming before the sequence is
\* exhausted, store_prompt has not been called.
C8_AbandonedNeverStored ==
    pc = "abandoned" => StoreCalls(calls) = 0

\* C8 amended: if the caller stops before the backend interaction is over
\* (before the first next(), or after a streamed item and before the trailer),
\* store_prompt has not been called; if it stops after the trailer or after a
\* formatted block, store_prompt has been called once.
C8_AbandonedMidStreamNotStored ==
    pc = "abandoned" =>
        /\ abandonedAt \in {"created", "chunk"} => StoreCalls(calls) = 0
        /\ abandonedAt \in {"trailer", "block"} => StoreCalls(calls) = 1

C8_Witness ==
    /\ pc = "abandoned"
    /\ abandonedAt = "chunk"
    /\ stream
    /\ makeResult = "ok"
    /\ Len(yielded) >= 2
    /\ P.responses # <<>>

\* C9: if the backend call fails (stream_response raises, a chunk or the
\* completion does not parse, complete_response raises), iterate_responses
\* raises, store_prompt has not been called and the backend was called once.
C9_BackendFailureNotStored ==
    (pc = "raised" /\ err \in {"backend", "parse"}) =>
        /\ StoreCalls(calls) = 0
        /\ BackendCalls(calls) = 1

C9_Witness ==
    /\ pc = "raised"
    /\ err = "backend"
    /\ stream
    /\ makeResult = "ok"
    /\ Len(yielded) >= 1
    /\ P.responses # <<>>

\* The fragments append_response returns for the chunks, nulls left out.
RECURSIVE Fragments(_)
Fragments(cs) ==
    IF cs = <<>> THEN <<>>
    ELSE LET c == Head(cs)
             r == IF c.ok THEN append_response(EmptyPrompt, c).ret ELSE None
         IN  (IF r = None THEN <<>> ELSE << Item("fragment", r[1], 0, None) >>)
                \o Fragments(Tail(cs))

BeforeTrailer(items) ==
    SelectSeq(items, LAMBDA it : it.kind \notin {"trailer", "block"})

\* C10: in streaming mode the items yielded before the trailer are exactly
\* the non-null results of append_response, in chunk order.
C10_YieldsNonNullFragments ==
    prompt # None => BeforeTrailer(yielded) = Fragments(chunks)

\* What the generator yielded from the trailer on.
FromTrailer(items) ==
    SelectSeq(items, LAMBDA it : it.kind \in {"trailer", "block"})

\* C11: in streaming mode, after the last chunk store_prompt is called, then
\* the trailer is yielded with the hash store_prompt finalized, then one
\* formatted block per response index 1..N-1 in increasing order, never for
\* index 0; with N = 1 no block follows the trailer.
C11_TrailerThenLaterBlocks ==
    pc \in {"trailer", "block", "done"} =>
        LET rest == FromTrailer(yielded)
            N == Len(P.responses)
        IN  /\ stream
            /\ StoreCalls(calls) = 1
            /\ calls[Len(calls)] = StoreCall("store_prompt", "prompt")
            /\ P.hash # None
            /\ rest # <<>>
            /\ rest = SubSeq(yielded, Len(yielded) - Len(rest) + 1, Len(yielded))
            /\ rest[1] = Item("trailer", <<>>, 0, P.hash)
            /\ Len(rest) <= (IF N = 0 THEN 1 ELSE N)
            /\ \A i \in 2..Len(rest) :
                    rest[i] = Item("block", P.responses[i].content, i - 1, P.hash)
            /\ pc = "done" => Len(rest) = (IF N = 0 THEN 1 ELSE N)

C11_Witness ==
    /\ pc = "done"
    /\ makeResult = "ok"
    /\ Len(P.responses) = 2
    /\ P.responses[1].present
    /\ Len(yielded) = 5
    /\ yielded[4].kind = "trailer"
    /\ yielded[5].kind = "block"
    /\ yielded[5].index = 1

\* C12: in blocking mode, once complete_response has returned, the response
\* is set and the prompt is stored, iterate_responses yields one formatted
\* block per response index 0..N-1 and completes without error.
C12_BlockingYieldsEveryBlock ==
    (~stream /\ pc \in {"done", "raised"} /\ prompt # None /\ StoreCalls(calls) = 1
        /\ err # "store")
    =>  /\ pc = "done"
        /\ calls = << ChatCall("complete_response"), StoreCall("store_prompt", "prompt") >>
        /\ Len(yielded) = Len(P.responses)
        /\ \A i \in 1..Len(yielded) :
                yielded[i] = Item("block", P.responses[i].content, i - 1, P.hash)

\* C13: a prompt streamed a chunk sequence and an identically built prompt
\* given the completion that is the concatenation of those chunks end with
\* the same responses and the same finalized hash.
C13_StreamingEqualsBlocking ==
    pc = "compared" =>
        /\ P.responses = T.responses
        /\ P.hash = T.hash
        /\ P.hash # None

C13_Witness ==
    /\ pc = "compared"
    /\ chunks = << Delta(0, <<"Hel">>, FALSE), Delta(0, <<"lo">>, FALSE), Delta(0, <<>>, TRUE) >>
    /\ P.request = Some(<<"fix", "bug">>)
    /\ T.responses = << Choice(<<"Hel", "lo">>, "stop") >>
    /\ T.hash # None

C15_ParentGivenIsParent ==
    (makeResult = "ok" /\ prompt # None /\ P.parents # <<>>)
    =>  /\ P.parent = Some(P.parents[1])
        /\ Digest(P) # Digest([P EXCEPT !.parents = <<>>, !.parent = None])

\* C16: formatted_response(index) raises nothing and returns None for every
\* index at or past the number of responses, every negative index, and every
\* index whose response is incomplete.
C16_NullOutOfRangeOrIncomplete ==
    \A index \in Indexes :
        LET r == formatted_response(P, index)
            n == Len(P.responses)
        IN  (index >= n \/ index < 0 \/ ~P.responses[index + 1].present)
                => (~r.raised /\ r.value = None)

PromptOps(log) == SelectSeq(log, LAMBDA c : c.on = "prompt")

\* C17: a successful make_prompt leaves one INSTRUCT message, the
\* concatenation of instruct_contents in order, or none when there is no
\* instruction; the request; and the context_contents as CONTEXT messages
\* one by one in the given order; the prompt was populated in that order.
C17_PopulatedInOrder ==
    makeResult = "ok" =>
        LET a == args[1]
        IN  /\ P.instruct = (IF a.instruct_contents = <<>> THEN <<>>
                             ELSE << Join(a.instruct_contents) >>)
            /\ P.request = Some(a.request)
            /\ P.context = a.context_contents
            /\ PromptOps(calls) =
                 (IF a.instruct_contents = <<>> THEN <<>>
                  ELSE << PromptCall("append_message", "instruct") >>)
                 \o << PromptCall("set_request", "request") >>
                 \o [i \in 1..Len(a.context_contents) |->
                        PromptCall("append_message", "context")]

C17_Witness ==
    /\ makeResult = "ok"
    /\ args[1].instruct_contents = << <<"be ">>, <<"concise">> >>
    /\ args[1].context_contents = << <<"f2">>, <<"f1">> >>
    /\ P.instruct = << <<"be ", "concise">> >>
    /\ P.context = << <<"f2">>, <<"f1">> >>
    /\ Len(PromptOps(calls)) = 4

GetCalls(log) == SelectSeq(log, LAMBDA c : c.op = "get_prompt")

\* C20: make_prompt calls neither store_prompt nor a backend operation; it
\* calls get_prompt for the parent hashes and then the reference hashes in
\* list order, once each when all resolve, and up to and including the
\* first one that does not resolve otherwise.
C20_MakePromptOnlyReads ==
    makeResult # "none" =>
        LET a == args[1]
            lookups == a.parent \o a.reference
            gets == GetCalls(calls)
        IN  /\ StoreCalls(calls) = 0
            /\ BackendCalls(calls) = 0
            /\ Len(gets) <= Len(lookups)
            /\ \A i \in 1..Len(gets) : gets[i] = StoreCall("get_prompt", lookups[i])
            /\ \A i \in 1..(Len(gets) - 1) : Resolvable(lookups[i])
            /\ makeResult = "ok" =>
                    /\ Len(gets) = Len(lookups)
                    /\ \A i \in 1..Len(lookups) : Resolvable(lookups[i])
            /\ makeResult = "unresolved" =>
                    /\ gets # <<>>
                    /\ ~Resolvable(lookups[Len(gets)])
            /\ makeResult = "init_failed" => gets = <<>>

C20_Witness ==
    /\ makeResult = "unresolved"
    /\ args[1].parent = <<"a1", "b2">>
    /\ args[1].reference = <<"zz", "a1">>
    /\ GetCalls(calls) = << StoreCall("get_prompt", "a1"), StoreCall("get_prompt", "b2"),
                            StoreCall("get_prompt", "zz") >>

\* C18: whenever the active prompt has a hash, the hash is the digest of
\* the prompt's current fields.
C18_HashNeverStale ==
    (prompt # None /\ P.hash # None) => P.hash = Some(Digest(P))

BackendOps(log) ==
    SelectSeq(log, LAMBDA c : c.op \in {"stream_response", "complete_response"})

\* The generator has run at least one next().
Advanced ==
    \/ pc \in {"chunk", "trailer", "block", "done", "raised"}
    \/ pc = "abandoned" /\ abandonedAt # "created"

\* C19: a run of iterate_responses calls one backend operation, the one
\* config.stream selects, once, and first; store_prompt is called at most
\* once, after it and after the stream has ended; a trailer or a block is
\* yielded only when store_prompt has been called.
C19_OneBackendThenStore ==
    pc # "idle" =>
        /\ ~Advanced => calls = <<>>
        /\ Advanced =>
            /\ BackendOps(calls) =
                 << ChatCall(IF stream THEN "stream_response" ELSE "complete_response") >>
            /\ calls[1] = BackendOps(calls)[1]
        /\ StoreCalls(calls) <= 1
        /\ StoreCalls(calls) = 1 =>
            /\ calls[Len(calls)].op = "store_prompt"
            /\ Len(calls) = 2
            /\ pc \notin {"created", "chunk"}
            /\ abandonedAt \notin {"created", "chunk"}
        /\ (\E i \in 1..Len(yielded) : yielded[i].kind \in {"trailer", "block"})
                => StoreCalls(calls) = 1

C19_Witness ==
    /\ pc = "done" /\ stream
    /\ calls = << ChatCall("stream_response"), StoreCall("store_prompt", "prompt") >>
    /\ Len(chunks) = 2
    /\ yielded[Len(yielded)].kind = "block"

====
